---- MODULE Spec2Model ----
(***************************************************************************)
(* AgentDog plugin for Clawdbot (src/src/index.ts, lines 430-850).         *)
(*                                                                         *)
(* The plugin runs on one JavaScript event loop.  Every handler is an      *)
(* async function; it runs without interruption up to the next fetch()     *)
(* and is resumed when the response of that fetch arrives.  An action of   *)
(* this model is one such run: the dispatch of a handler up to its first   *)
(* request, or the arrival of a response up to the next request or the     *)
(* end of the handler.  An await that involves no request (an              *)
(* ensureRegistered() that returns at once) reads only state that no other *)
(* handler takes back (agentId is never cleared), so it is folded into the *)
(* run it belongs to.                                                      *)
(***************************************************************************)
EXTENDS Integers, Sequences, FiniteSets, TLC

----------------------------------------------------------------------------
(* Bounds of the model.                                                    *)

MaxTasks == 2
MaxTurns == 2
MaxTraces == 3
MaxErrors == 1
MaxMsgs == 3
MaxBlocks == 3
MaxFailures == 15

(* Program constants.                                                      *)

MAX_REGISTRATION_ATTEMPTS == 3
ERROR_BUFFER_SIZE == 10

----------------------------------------------------------------------------
(* JavaScript values.                                                      *)
(* A string is a sequence of one-character strings.  Null stands for the   *)
(* falsy values null, undefined and '' of an identifier or a session key.  *)

Null == ""
Truthy(x) == x # Null

Undef == <<"undefined">>
EmptyStr == <<>>

Whitespace == {" ", "\n"}

(* x || ''                                                                 *)
OrEmpty(x) == IF x = Undef THEN EmptyStr ELSE x

RECURSIVE TrimStart(_)
TrimStart(s) ==
    IF s = <<>> THEN <<>>
    ELSE IF Head(s) \in Whitespace THEN TrimStart(Tail(s))
    ELSE s

RECURSIVE TrimEnd(_)
TrimEnd(s) ==
    IF s = <<>> THEN <<>>
    ELSE IF s[Len(s)] \in Whitespace THEN TrimEnd(SubSeq(s, 1, Len(s) - 1))
    ELSE s

(* String.prototype.trim                                                   *)
Trim(s) == TrimEnd(TrimStart(s))

(* String.prototype.startsWith                                             *)
StartsWith(s, p) == Len(s) >= Len(p) /\ SubSeq(s, 1, Len(p)) = p

----------------------------------------------------------------------------
(* The message history handed to agent_end (event.messages).               *)
(* A message is [role, kind, blocks]: kind says whether content is a plain *)
(* string ("str"), an array of blocks ("arr") or neither ("none"); a block *)
(* is [type, val], val being text, thinking or the tool name.              *)
(* A message of kind "str" may hold its characters as one text value.      *)

Block(type, val) == [type |-> type, val |-> val]
Msg(role, kind, blocks) == [role |-> role, kind |-> kind, blocks |-> blocks]

(* hasRealContent taking every array for real content                      *)
HasRealContent_anyArray(m) == m.kind \in {"arr", "str"}

(* m.content.some(b => b?.type === 'text') or typeof m.content === 'string' *)
HasRealContent(m) ==
    IF m.kind = "arr"
    THEN \E j \in 1..Len(m.blocks) : m.blocks[j].type = "text"
    ELSE m.kind = "str"

(* The backward loop over event.messages; indices are 0-based as in the    *)
(* code, so message i is msgs[i + 1].                                      *)
RECURSIVE ScanBack(_, _)
ScanBack(msgs, i) ==
    IF i < 0 THEN -1
    ELSE IF msgs[i + 1].role = "user" /\ HasRealContent(msgs[i + 1]) THEN i
    ELSE ScanBack(msgs, i - 1)

TurnStartIdx(msgs) == ScanBack(msgs, Len(msgs) - 1)

(* The payload handed to sendEvent.  at is the place of the block a        *)
(* tool_call event was made from: <<message index, block position>>.       *)
Event(type, role, traceId, name, content, thinking, at) ==
    [type |-> type, role |-> role, trace_id |-> traceId, name |-> name,
     content |-> content, thinking |-> thinking, at |-> at]

(* find instead of filter: the first toolCall block of a message only      *)
RECURSIVE ToolCallEvents_firstOnly(_, _, _, _)
ToolCallEvents_firstOnly(blocks, j, i, traceId) ==
    IF j > Len(blocks) THEN <<>>
    ELSE IF blocks[j].type = "toolCall"
    THEN <<Event("tool_call", "", traceId, OrEmpty(blocks[j].val),
                 EmptyStr, EmptyStr, <<i, j>>)>>
    ELSE ToolCallEvents_firstOnly(blocks, j + 1, i, traceId)

(* msg.content.filter(b => b?.type === 'toolCall'), one sendEvent each     *)
RECURSIVE ToolCallEvents(_, _, _, _)
ToolCallEvents(blocks, j, i, traceId) ==
    IF j > Len(blocks) THEN <<>>
    ELSE (IF blocks[j].type = "toolCall"
          THEN <<Event("tool_call", "", traceId, OrEmpty(blocks[j].val),
                       EmptyStr, EmptyStr, <<i, j>>)>>
          ELSE <<>>)
         \o ToolCallEvents(blocks, j + 1, i, traceId)

(* text kept from the first text block instead of the last                 *)
RECURSIVE AccumulateBlocks_keepFirst(_, _, _)
AccumulateBlocks_keepFirst(blocks, j, acc) ==
    IF j > Len(blocks) THEN acc
    ELSE AccumulateBlocks_keepFirst(blocks, j + 1,
           IF blocks[j].type = "text"
           THEN (IF acc.content = EmptyStr
                 THEN [acc EXCEPT !.content = OrEmpty(blocks[j].val)] ELSE acc)
           ELSE IF blocks[j].type = "thinking"
           THEN [acc EXCEPT !.thinking = @ \o OrEmpty(blocks[j].val) \o <<"\n">>]
           ELSE acc)

(* thinking appended without the line break                                *)
RECURSIVE AccumulateBlocks_noBreak(_, _, _)
AccumulateBlocks_noBreak(blocks, j, acc) ==
    IF j > Len(blocks) THEN acc
    ELSE AccumulateBlocks_noBreak(blocks, j + 1,
           IF blocks[j].type = "text"
           THEN [acc EXCEPT !.content = OrEmpty(blocks[j].val)]
           ELSE IF blocks[j].type = "thinking"
           THEN [acc EXCEPT !.thinking = @ \o OrEmpty(blocks[j].val)]
           ELSE acc)

(* for (const block of msg.content): text overwrites, thinking appends     *)
RECURSIVE AccumulateBlocks(_, _, _)
AccumulateBlocks(blocks, j, acc) ==
    IF j > Len(blocks) THEN acc
    ELSE AccumulateBlocks(blocks, j + 1,
           IF blocks[j].type = "text"
           THEN [acc EXCEPT !.content = OrEmpty(blocks[j].val)]
           ELSE IF blocks[j].type = "thinking"
           THEN [acc EXCEPT !.thinking = @ \o OrEmpty(blocks[j].val) \o <<"\n">>]
           ELSE acc)

(* the forward scan without the Array.isArray test: the content of every   *)
(* assistant message is read                                               *)
RECURSIVE ScanForward_anyContent(_, _, _, _)
ScanForward_anyContent(msgs, i, traceId, acc) ==
    IF i >= Len(msgs) THEN acc
    ELSE LET msg == msgs[i + 1] IN
         IF msg.role = "assistant"
         THEN LET a == AccumulateBlocks(msg.blocks, 1, acc) IN
              ScanForward_anyContent(msgs, i + 1, traceId,
                  [a EXCEPT !.calls = @ \o ToolCallEvents(msg.blocks, 1, i, traceId)])
         ELSE ScanForward_anyContent(msgs, i + 1, traceId, acc)

(* for (let i = turnStartIdx + 1; i < event.messages.length; i++)          *)
RECURSIVE ScanForward(_, _, _, _)
ScanForward(msgs, i, traceId, acc) ==
    IF i >= Len(msgs) THEN acc
    ELSE LET msg == msgs[i + 1] IN
         IF msg.role = "assistant" /\ msg.kind = "arr"
         THEN LET a == AccumulateBlocks(msg.blocks, 1, acc) IN
              ScanForward(msgs, i + 1, traceId,
                  [a EXCEPT !.calls = @ \o ToolCallEvents(msg.blocks, 1, i, traceId)])
         ELSE ScanForward(msgs, i + 1, traceId, acc)

(* agent_end testing the final text without trimming it                    *)
AgentEndEvents_noTrim(event, traceId) ==
    LET scan == ScanForward(event.messages, TurnStartIdx(event.messages) + 1, traceId,
                            [calls |-> <<>>, content |-> EmptyStr, thinking |-> EmptyStr])
    IN  (IF event.hasMessages
         THEN scan.calls \o
              (IF scan.content # EmptyStr
               THEN <<Event("message", "assistant", traceId, EmptyStr,
                            scan.content, Trim(scan.thinking), <<>>)>>
               ELSE <<>>)
         ELSE <<>>)
        \o (IF event.usage
            THEN <<Event("usage", "", traceId, EmptyStr, EmptyStr, EmptyStr, <<>>)>>
            ELSE <<>>)

(* agent_end sending the usage event before it scans the history          *)
AgentEndEvents_usageFirst(event, traceId) ==
    LET scan == ScanForward(event.messages, TurnStartIdx(event.messages) + 1, traceId,
                            [calls |-> <<>>, content |-> EmptyStr, thinking |-> EmptyStr])
        finalContent == Trim(scan.content)
        finalThinking == Trim(scan.thinking)
    IN  (IF event.usage
         THEN <<Event("usage", "", traceId, EmptyStr, EmptyStr, EmptyStr, <<>>)>>
         ELSE <<>>)
        \o (IF event.hasMessages
            THEN scan.calls \o
                 (IF finalContent # EmptyStr
                  THEN <<Event("message", "assistant", traceId, EmptyStr,
                          finalContent, finalThinking, <<>>)>>
                  ELSE <<>>)
            ELSE <<>>)

(* The sendEvent calls of one agent_end run, in the order it makes them.   *)
AgentEndEvents(event, traceId) ==
    LET scan == ScanForward(event.messages, TurnStartIdx(event.messages) + 1, traceId,
                            [calls |-> <<>>, content |-> EmptyStr, thinking |-> EmptyStr])
        finalContent == Trim(scan.content)
        finalThinking == Trim(scan.thinking)
    IN  (IF event.hasMessages
         THEN scan.calls \o
              (IF finalContent # EmptyStr
               THEN <<Event("message", "assistant", traceId, EmptyStr,
                       finalContent, finalThinking, <<>>)>>
               ELSE <<>>)
         ELSE <<>>)
        \o (IF event.usage
            THEN <<Event("usage", "", traceId, EmptyStr, EmptyStr, EmptyStr, <<>>)>>
            ELSE <<>>)

(* The histories the model feeds to agent_end.                              *)
Roles == {"user", "assistant"}

Blocks ==
    { Block("text", <<"d">>), Block("text", <<"f", " ">>), Block("text", <<" ">>),
      Block("thinking", <<"a">>),
      Block("toolCall", <<"t">>), Block("toolResult", EmptyStr) }

RECURSIVE BlockSeqs(_)
BlockSeqs(k) ==
    IF k = 0 THEN {<<>>}
    ELSE {Append(s, b) : s \in BlockSeqs(k - 1), b \in Blocks}

MsgsWith(k) ==
    {Msg(r, "arr", bs) : r \in Roles, bs \in BlockSeqs(k)}
    \cup (IF k = 0 THEN {Msg(r, c, <<>>) : r \in Roles, c \in {"str", "none"}} ELSE {})

AgentEndEvent(hasMessages, messages, usage) ==
    [hasMessages |-> hasMessages, messages |-> messages, usage |-> usage]

Messages == UNION {MsgsWith(k) : k \in 0..MaxBlocks}

RECURSIVE BlockCount(_)
BlockCount(msgs) ==
    IF msgs = <<>> THEN 0 ELSE Len(Head(msgs).blocks) + BlockCount(Tail(msgs))

----------------------------------------------------------------------------
(* Plugin state (module scope) and the host around it.                     *)

VARIABLES
    apiKey,                 \* cfg.apiKey handed to register(api)
    activated,              \* register(api) has run
    attached,               \* register(api) attached the handlers
    delayedPending,         \* the setTimeout of register(api) has not fired yet
    agentId,
    registrationAttempts,
    syncIntervalId,         \* 0 is null
    gatewayStartTime,       \* Null or "date"
    errorCount,
    recentErrors,
    sessionTraces,          \* the Map: 0 is "no entry"
    nextTrace,              \* generateTraceId: the next unused trace id
    timers,                 \* the live setInterval timers
    tasks,                  \* handler runs suspended in a fetch
    hostTurn,               \* host: number of the current turn of each session
    hostActive,             \* host: the turn of the session has not ended
    failures,               \* host: tool failures signalled since the last gateway_start
    input,                  \* host: the message history of the open turn
    config,                 \* host: api.config
    stopped,                \* host: gateway_stop was signalled and no gateway_start since
    lastPost,               \* the request issued by the last step
    lastRun,                \* the agent_end run that returned in the last step
    regIssued,              \* registration requests issued since the counter was last reset
    turnTrace               \* trace id of the first event posted for each turn

vars == <<apiKey, activated, attached, delayedPending, agentId, registrationAttempts,
          syncIntervalId, gatewayStartTime, errorCount, recentErrors, sessionTraces,
          nextTrace, timers, tasks, hostTurn, hostActive, failures, input, config,
          stopped, lastPost, lastRun, regIssued, turnTrace>>

activationVars == <<apiKey, activated, attached, delayedPending, input, config>>
configVars == <<activationVars, stopped>>
errorVars == <<errorCount, recentErrors, failures>>
hostVars == <<hostTurn, hostActive>>
traceVars == <<sessionTraces, nextTrace>>

AgentIds == {"a1", "a2"}
SessionKeys == {"s1", Null}
TraceKeys == {"s1", "default"}
ApiKeys == {<<>>, <<"s", "k", "_", "1">>, <<"a", "d", "_", "1">>}
Slots == 1..MaxTasks

EventKinds == {"message_received", "message_sent", "after_tool_call", "agent_end"}
SyncKinds == {"gateway_start", "heartbeat", "timer", "delayed"}

NoEvent == Event("none", "", 0, EmptyStr, EmptyStr, EmptyStr, <<>>)
NoInput == AgentEndEvent(FALSE, <<>>, FALSE)

IdleTask ==
    [kind |-> "idle", pc |-> "idle", key |-> Null, turn |-> 0, traceId |-> 0,
     queue |-> <<>>, calls |-> <<>>, event |-> NoInput, counted |-> FALSE]

NewTask(kind, key, turn, traceId, queue, event) ==
    [kind |-> kind, pc |-> "run", key |-> key, turn |-> turn, traceId |-> traceId,
     queue |-> queue, calls |-> <<>>, event |-> event, counted |-> FALSE]

(* The host configuration, as far as channels and plugins go.  A channel   *)
(* or a plugin entry is missing, null or an object; enabled is "true",     *)
(* "false" or "undefined"; token and secret stand for every field the      *)
(* payload is not meant to carry.                                          *)

PluginNames == <<"agentdog", "memory">>
Flags == {"true", "false", "undefined"}

NoChannel(state) ==
    [state |-> state, enabled |-> "undefined", dmPolicy |-> "undefined",
     groupPolicy |-> "undefined", streamMode |-> "undefined", token |-> "t1"]

ChannelConfigs ==
    {NoChannel("missing"), NoChannel("null")}
    \cup [state : {"object"}, enabled : Flags, dmPolicy : {"open"},
          groupPolicy : {"undefined"}, streamMode : {"partial"}, token : {"t1", "t2"}]

NoPlugin(state) == [state |-> state, enabled |-> "undefined", secret |-> "k1"]

PluginConfigs ==
    {NoPlugin("missing"), NoPlugin("null")}
    \cup [state : {"object"}, enabled : Flags, secret : {"k1", "k2"}]

(* defined: config.channels is there; entries: config.plugins.entries is   *)
Configs ==
    [channels : {ch \in [defined : BOOLEAN, of : [{"telegram"} -> ChannelConfigs]] :
                    ~ch.defined => \A n \in DOMAIN ch.of : ch.of[n].state = "missing"},
     plugins : {pl \in [entries : BOOLEAN, of : [{"agentdog", "memory"} -> PluginConfigs]] :
                    ~pl.entries => \A n \in DOMAIN pl.of : pl.of[n].state = "missing"}]

DefaultConfig ==
    [channels |-> [defined |-> TRUE,
                   of |-> [n \in {"telegram"} |->
                             [state |-> "object", enabled |-> "undefined",
                              dmPolicy |-> "open", groupPolicy |-> "undefined",
                              streamMode |-> "partial", token |-> "t1"]]],
     plugins |-> [entries |-> TRUE,
                  of |-> [n \in {"agentdog", "memory"} |->
                            IF n = "agentdog"
                            THEN [state |-> "object", enabled |-> "true", secret |-> "k1"]
                            ELSE NoPlugin("missing")]]]

(* config.enabled ?? true                                                  *)
OrTrue(x) == IF x = "undefined" THEN "true" ELSE x

(* getSafeChannels copying the whole channel config                        *)
GetSafeChannels_spread(channels) ==
    [n \in {m \in DOMAIN channels.of : channels.defined /\ channels.of[m].state = "object"} |->
        [channels.of[n] EXCEPT !.enabled = OrTrue(@)]]

(* getSafeChannels: nothing without channels; a missing or null config is  *)
(* skipped; of the others four fields are copied.                          *)
GetSafeChannels(channels) ==
    [n \in {m \in DOMAIN channels.of : channels.defined /\ channels.of[m].state = "object"} |->
        [enabled |-> OrTrue(channels.of[n].enabled),
         dmPolicy |-> channels.of[n].dmPolicy,
         groupPolicy |-> channels.of[n].groupPolicy,
         streamMode |-> channels.of[n].streamMode]]

(* getPluginNames: [] without entries; the names, in the order of the      *)
(* entries, of those whose config?.enabled is not false.                   *)
GetPluginNames(plugins) ==
    IF ~plugins.entries THEN <<>>
    ELSE LET Listed(n) == /\ plugins.of[n].state # "missing"
                          /\ ~(plugins.of[n].state = "object" /\ plugins.of[n].enabled = "false")
         IN  SelectSeq(PluginNames, Listed)

(* memory: config?.plugins?.entries?.memory ? { enabled: true } : { enabled: false } *)
MemoryEnabled(plugins) == plugins.entries /\ plugins.of["memory"].state = "object"

(* The body of the config POST, as far as it reads channels and plugins.   *)
ConfigPayload(c) ==
    [channels |-> GetSafeChannels(c.channels),
     plugins |-> GetPluginNames(c.plugins),
     memory |-> MemoryEnabled(c.plugins)]

NoPayload == [channels |-> <<>>, plugins |-> <<>>, memory |-> FALSE]

NoPost ==
    [path |-> "none", agent_id |-> Null, by |-> "idle", key |-> Null, turn |-> 0,
     event |-> NoEvent, payload |-> NoPayload]

RegisterPost(task) ==
    [path |-> "/agents/register", agent_id |-> Null, by |-> task.kind, key |-> Null,
     turn |-> 0, event |-> NoEvent, payload |-> NoPayload]

(* POST /agents/${agentId}/config                                          *)
ConfigPost(task, aid) ==
    [path |-> "/agents/{agentId}/config", agent_id |-> aid, by |-> task.kind,
     key |-> Null, turn |-> 0, event |-> NoEvent, payload |-> ConfigPayload(config)]

(* POST /events { agent_id, type, session_id, data }                       *)
EventPost(task, e, aid) ==
    [path |-> "/events", agent_id |-> aid, by |-> task.kind, key |-> task.key,
     turn |-> task.turn, event |-> e, payload |-> NoPayload]

NoRun ==
    [key |-> Null, traceId |-> 0, event |-> NoInput, turnStartIdx |-> -1,
     calls |-> <<>>, runs |-> 0]

----------------------------------------------------------------------------
(* Trace tracking.                                                         *)

(* sessionKey || 'default'                                                 *)
TraceKey(sessionKey) == IF Truthy(sessionKey) THEN sessionKey ELSE "default"

(* getOrCreateTraceId that never looks the key up                          *)
GetOrCreateTraceId_alwaysNew(sessionKey, st, next) ==
    LET key == TraceKey(sessionKey) IN
    [traceId |-> next, traces |-> [st EXCEPT ![key] = next], next |-> next + 1]

(* getOrCreateTraceId: the id returned, the Map and the generator after it. *)
(* generateTraceId builds an id from the clock and a random suffix; the     *)
(* model takes it never to return the same id twice and numbers the ids.    *)
GetOrCreateTraceId(sessionKey, st, next) ==
    LET key == TraceKey(sessionKey) IN
    IF st[key] # 0
    THEN [traceId |-> st[key], traces |-> st, next |-> next]
    ELSE [traceId |-> next, traces |-> [st EXCEPT ![key] = next], next |-> next + 1]

(* clearTraceId that leaves the entry in the Map                           *)
ClearTraceId_keeps(sessionKey, st) == st

(* clearTraceId emptying the Map                                           *)
ClearTraceId_all(sessionKey, st) == [k \in DOMAIN st |-> 0]

(* clearTraceId deleting the key as given: nothing for a missing key       *)
ClearTraceId_raw(sessionKey, st) ==
    IF Truthy(sessionKey) THEN [st EXCEPT ![sessionKey] = 0] ELSE st

(* clearTraceId: sessionTraces.delete(sessionKey || 'default')             *)
ClearTraceId(sessionKey, st) == [st EXCEPT ![TraceKey(sessionKey)] = 0]

----------------------------------------------------------------------------
(* Registration.                                                           *)

(* registerAgent comparing with > instead of >=                            *)
RegisterAgent_offByOne(aid, att) ==
    IF Truthy(aid) THEN [ret |-> "true", attempts |-> att]
    ELSE IF att > MAX_REGISTRATION_ATTEMPTS THEN [ret |-> "false", attempts |-> att]
    ELSE [ret |-> "request", attempts |-> att + 1]

(* registerAgent that has not counted the attempt when it issues the fetch *)
RegisterAgent_lateIncrement(aid, att) ==
    IF Truthy(aid) THEN [ret |-> "true", attempts |-> att]
    ELSE IF att >= MAX_REGISTRATION_ATTEMPTS THEN [ret |-> "false", attempts |-> att]
    ELSE [ret |-> "request", attempts |-> att]

(* registerAgent without its test of agentId                               *)
RegisterAgent_noCheck(aid, att) ==
    IF att >= MAX_REGISTRATION_ATTEMPTS THEN [ret |-> "false", attempts |-> att]
    ELSE [ret |-> "request", attempts |-> att + 1]

(* registerAgent without its test of the attempt counter                   *)
RegisterAgent_noBudget(aid, att) ==
    IF Truthy(aid) THEN [ret |-> "true", attempts |-> att]
    ELSE [ret |-> "request", attempts |-> att + 1]

(* The part of registerAgent before its fetch: "true" and "false" are its  *)
(* immediate returns, "request" the incremented counter and the request.   *)
RegisterAgent(aid, att) ==
    IF Truthy(aid) THEN [ret |-> "true", attempts |-> att]
    ELSE IF att >= MAX_REGISTRATION_ATTEMPTS THEN [ret |-> "false", attempts |-> att]
    ELSE [ret |-> "request", attempts |-> att + 1]

(* ensureRegistered that does not fall back on registerAgent               *)
EnsureRegistered_noLazy(aid, att) ==
    [ret |-> IF Truthy(aid) THEN "true" ELSE "false", attempts |-> att]

(* ensureRegistered that lets every caller through                         *)
EnsureRegistered_open(aid, att) == [ret |-> "true", attempts |-> att]

EnsureRegistered(aid, att) ==
    IF Truthy(aid) THEN [ret |-> "true", attempts |-> att]
    ELSE RegisterAgent(aid, att)

(* The outcome of a run: the task as it is suspended, the counter, the     *)
(* request issued, whether the handler returned, and whether it reached    *)
(* its timer block.                                                        *)
Outcome(task, att, post, done, timer) ==
    [task |-> task, attempts |-> att, post |-> post, done |-> done, timer |-> timer]

(* The sendEvent calls left in the queue of an event handler, up to the    *)
(* first fetch.                                                            *)
RECURSIVE ContinueSends(_, _, _)
ContinueSends(task, aid, att) ==
    IF task.queue = <<>> THEN Outcome(task, att, NoPost, TRUE, FALSE)
    ELSE LET e == Head(task.queue)
             g == EnsureRegistered(aid, att)
             called == [task EXCEPT !.calls = Append(@, e)]
         IN  CASE g.ret = "true" ->
                    Outcome([called EXCEPT !.pc = "post", !.queue = Tail(@)],
                            att, EventPost(task, e, aid), FALSE, FALSE)
               [] g.ret = "false" ->
                    ContinueSends([called EXCEPT !.queue = Tail(@)], aid, att)
               [] g.ret = "request" ->
                    Outcome([called EXCEPT !.pc = "gate", !.counted = TRUE],
                            g.attempts, RegisterPost(task), FALSE, FALSE)

(* syncConfig returning when there is no identity, without the call of     *)
(* registerAgent behind ensureRegistered                                   *)
ContinueSync_noRetry(task, aid, att) ==
    IF Truthy(aid)
    THEN Outcome([task EXCEPT !.pc = "post"], att, ConfigPost(task, aid), FALSE, FALSE)
    ELSE Outcome(task, att, NoPost, TRUE, task.kind \in {"gateway_start", "delayed"})

(* syncConfig up to its fetch, and what its caller does when it returns    *)
(* without one.                                                            *)
ContinueSync(task, aid, att) ==
    LET g == EnsureRegistered(aid, att) IN
    CASE g.ret = "true" ->
           Outcome([task EXCEPT !.pc = "post"], att, ConfigPost(task, aid), FALSE, FALSE)
      [] g.ret = "false" ->
           Outcome(task, att, NoPost, TRUE, task.kind \in {"gateway_start", "delayed"})
      [] g.ret = "request" ->
           Outcome([task EXCEPT !.pc = "gate", !.counted = TRUE],
                   g.attempts, RegisterPost(task), FALSE, FALSE)

(* await registerAgent() of gateway_start and of the delayed init, from    *)
(* the call on.                                                            *)
DirectRegister(task, aid, att) ==
    LET r == RegisterAgent(aid, att) IN
    CASE r.ret = "request" ->
           Outcome([task EXCEPT !.pc = "reg", !.counted = TRUE],
                   r.attempts, RegisterPost(task), FALSE, FALSE)
      [] task.kind = "gateway_start" -> ContinueSync(task, aid, att)
      [] OTHER -> IF Truthy(aid) THEN ContinueSync(task, aid, att)
                  ELSE Outcome(task, att, NoPost, TRUE, FALSE)

(* The statements after an awaited registerAgent() that issued a request,  *)
(* aid being agentId once registerAgent has returned and ok its result.    *)
AfterRegister(task, ok, aid, att) ==
    CASE task.pc = "reg" /\ task.kind = "gateway_start" -> ContinueSync(task, aid, att)
      [] task.pc = "reg" ->
           IF Truthy(aid) THEN ContinueSync(task, aid, att)
           ELSE Outcome(task, att, NoPost, TRUE, FALSE)
      [] task.kind \in EventKinds /\ ok ->
           Outcome([task EXCEPT !.pc = "post", !.queue = Tail(@)],
                   att, EventPost(task, Head(task.queue), aid), FALSE, FALSE)
      [] task.kind \in EventKinds ->
           ContinueSends([task EXCEPT !.queue = Tail(@)], aid, att)
      [] ok -> Outcome([task EXCEPT !.pc = "post"], att, ConfigPost(task, aid), FALSE, FALSE)
      [] OTHER -> Outcome(task, att, NoPost, TRUE, task.kind \in {"gateway_start", "delayed"})

(* The statements after an awaited POST of an event or of the config.      *)
AfterPost(task, aid, att) ==
    IF task.kind \in EventKinds THEN ContinueSends(task, aid, att)
    ELSE Outcome(task, att, NoPost, TRUE, task.kind \in {"gateway_start", "delayed"})

----------------------------------------------------------------------------
(* The periodic timer.                                                     *)

(* setInterval: a handle no live timer has                                 *)
NewTimer(ts) == CHOOSE n \in 1..(Cardinality(ts) + 1) : n \notin ts

(* gateway_start installing its timer without clearing the one in place   *)
TimerBlock_noClear(kind, sid, ts) ==
    IF kind = "gateway_start" \/ sid = 0
    THEN [syncIntervalId |-> NewTimer(ts), timers |-> ts \cup {NewTimer(ts)}]
    ELSE [syncIntervalId |-> sid, timers |-> ts]

(* The timer block of gateway_start (clear, then install) and of the       *)
(* delayed init (install if there is none).  setInterval returns a handle  *)
(* it has not returned before: the new handle is none of the live ones,    *)
(* the one just cleared included.                                          *)
TimerBlock(kind, sid, ts) ==
    IF kind = "gateway_start"
    THEN LET cleared == IF sid # 0 THEN ts \ {sid} ELSE ts
             new == NewTimer(ts)
         IN  [syncIntervalId |-> new, timers |-> cleared \cup {new}]
    ELSE IF sid = 0
    THEN [syncIntervalId |-> NewTimer(ts), timers |-> ts \cup {NewTimer(ts)}]
    ELSE [syncIntervalId |-> sid, timers |-> ts]

----------------------------------------------------------------------------
(* clearTraceId reached only when the signal carries usage data            *)
ClosesTrace_withUsage(task) == task.kind = "agent_end" /\ task.event.usage

(* The last statement of agent_end, clearTraceId(event.sessionKey), is     *)
(* under no condition; no other handler has it.                            *)
ClosesTrace(task) == task.kind = "agent_end"

(* What every run does with its outcome r: tk, st and ri are the tasks,    *)
(* the trace Map and the count of registration requests as the run's own   *)
(* statements left them.                                                   *)
Apply(t, r, tk, st, ri) ==
    LET block == TimerBlock(r.task.kind, syncIntervalId, timers) IN
    /\ tasks' = [tk EXCEPT ![t] = IF r.done THEN IdleTask ELSE r.task]
    /\ registrationAttempts' = r.attempts
    /\ regIssued' = IF r.post.path = "/agents/register" THEN ri + 1 ELSE ri
    /\ lastPost' = r.post
    /\ turnTrace' =
         IF r.post.path = "/events" /\ r.post.turn # 0
            /\ turnTrace[r.post.key][r.post.turn] = 0
         THEN [turnTrace EXCEPT ![r.post.key][r.post.turn] = r.post.event.trace_id]
         ELSE turnTrace
    /\ syncIntervalId' = IF r.done /\ r.timer THEN block.syncIntervalId ELSE syncIntervalId
    /\ timers' = IF r.done /\ r.timer THEN block.timers ELSE timers
    /\ sessionTraces' =
         IF r.done /\ ClosesTrace(r.task) THEN ClearTraceId(r.task.key, st) ELSE st
    /\ lastRun' =
         IF r.done /\ r.task.kind = "agent_end"
         THEN [key |-> r.task.key, traceId |-> r.task.traceId, event |-> r.task.event,
               turnStartIdx |-> TurnStartIdx(r.task.event.messages),
               calls |-> r.task.calls, runs |-> 1]
         ELSE NoRun

FreeSlot == CHOOSE t \in Slots : tasks[t].pc = "idle" /\ \A u \in 1..(t - 1) : tasks[u].pc # "idle"
HasFreeSlot == \E t \in Slots : tasks[t].pc = "idle"

----------------------------------------------------------------------------
(* register(api) and the handlers it attaches.                             *)

Init ==
    /\ apiKey = <<>>
    /\ activated = FALSE
    /\ attached = FALSE
    /\ delayedPending = FALSE
    /\ agentId = Null
    /\ registrationAttempts = 0
    /\ syncIntervalId = 0
    /\ gatewayStartTime = Null
    /\ errorCount = 0
    /\ recentErrors = <<>>
    /\ sessionTraces = [k \in TraceKeys |-> 0]
    /\ nextTrace = 1
    /\ timers = {}
    /\ tasks = [t \in Slots |-> IdleTask]
    /\ hostTurn = [k \in SessionKeys |-> 0]
    /\ hostActive = [k \in SessionKeys |-> FALSE]
    /\ failures = 0
    /\ input = <<>>
    /\ config = DefaultConfig
    /\ stopped = FALSE
    /\ lastPost = NoPost
    /\ lastRun = NoRun
    /\ regIssued = 0
    /\ turnTrace = [k \in SessionKeys |-> [n \in 1..MaxTurns |-> 0]]

(* register(api) testing only that a key is configured                     *)
Register_noPrefixCheck(key) ==
    /\ ~activated
    /\ activated' = TRUE
    /\ apiKey' = key
    /\ attached' = (key # <<>>)
    /\ delayedPending' = attached'
    /\ lastPost' = NoPost
    /\ lastRun' = NoRun
    /\ UNCHANGED <<agentId, registrationAttempts, syncIntervalId, gatewayStartTime,
                   errorVars, traceVars, timers, tasks, hostVars, input, config, stopped,
                   regIssued, turnTrace>>

(* register(api): validates the key, attaches the handlers and arms the    *)
(* delayed init.                                                           *)
Register(key) ==
    /\ ~activated
    /\ activated' = TRUE
    /\ apiKey' = key
    /\ attached' = (key # <<>> /\ StartsWith(key, <<"a", "d", "_">>))
    /\ delayedPending' = attached'
    /\ lastPost' = NoPost
    /\ lastRun' = NoRun
    /\ UNCHANGED <<agentId, registrationAttempts, syncIntervalId, gatewayStartTime,
                   errorVars, traceVars, timers, tasks, hostVars, input, config, stopped,
                   regIssued, turnTrace>>

(* gateway_start calling registerAgent before it has reset the counters    *)
GatewayStart_lateReset ==
    /\ attached /\ HasFreeSlot
    /\ LET task == NewTask("gateway_start", Null, 0, 0, <<>>, NoInput)
           r == DirectRegister(task, agentId, registrationAttempts)
       IN  Apply(FreeSlot, r, tasks, sessionTraces, regIssued)
    /\ gatewayStartTime' = "date"
    /\ errorCount' = 0
    /\ recentErrors' = <<>>
    /\ failures' = 0
    /\ stopped' = FALSE
    /\ UNCHANGED <<activationVars, agentId, nextTrace, hostVars>>

(* api.on('gateway_start')                                                 *)
GatewayStart ==
    /\ attached /\ HasFreeSlot
    /\ LET task == NewTask("gateway_start", Null, 0, 0, <<>>, NoInput)
           r == DirectRegister(task, agentId, 0)
           tk == [u \in Slots |-> [tasks[u] EXCEPT !.counted = FALSE]]
       IN  Apply(FreeSlot, r, tk, sessionTraces, 0)
    /\ gatewayStartTime' = "date"
    /\ errorCount' = 0
    /\ recentErrors' = <<>>
    /\ failures' = 0
    /\ stopped' = FALSE
    /\ UNCHANGED <<activationVars, agentId, nextTrace, hostVars>>

(* heartbeat that returns when there is no identity instead of syncing     *)
Heartbeat_noNudge ==
    /\ attached /\ HasFreeSlot
    /\ gatewayStartTime' = IF ~Truthy(agentId) /\ gatewayStartTime = Null
                           THEN "date" ELSE gatewayStartTime
    /\ LET task == NewTask("heartbeat", Null, 0, 0, <<>>, NoInput)
           r == IF Truthy(agentId)
                THEN ContinueSync(task, agentId, registrationAttempts)
                ELSE Outcome(task, registrationAttempts, NoPost, TRUE, FALSE)
       IN  Apply(FreeSlot, r, tasks, sessionTraces, regIssued)
    /\ UNCHANGED <<configVars, agentId, errorVars, nextTrace, hostVars>>

(* api.on('heartbeat')                                                     *)
Heartbeat ==
    /\ attached /\ HasFreeSlot
    /\ gatewayStartTime' = IF ~Truthy(agentId) /\ gatewayStartTime = Null
                           THEN "date" ELSE gatewayStartTime
    /\ LET task == NewTask("heartbeat", Null, 0, 0, <<>>, NoInput)
           r == ContinueSync(task, agentId, registrationAttempts)
       IN  Apply(FreeSlot, r, tasks, sessionTraces, regIssued)
    /\ UNCHANGED <<configVars, agentId, errorVars, nextTrace, hostVars>>

(* gateway_stop that also resets the error counter and the error buffer   *)
GatewayStop_resets ==
    /\ attached
    /\ timers' = IF syncIntervalId # 0 THEN timers \ {syncIntervalId} ELSE timers
    /\ syncIntervalId' = 0
    /\ errorCount' = 0
    /\ recentErrors' = <<>>
    /\ lastPost' = NoPost
    /\ lastRun' = NoRun
    /\ stopped' = TRUE
    /\ UNCHANGED <<activationVars, agentId, registrationAttempts, gatewayStartTime, failures,
                   traceVars, tasks, hostVars, regIssued, turnTrace>>

(* api.on('gateway_stop')                                                  *)
GatewayStop ==
    /\ attached
    /\ timers' = IF syncIntervalId # 0 THEN timers \ {syncIntervalId} ELSE timers
    /\ syncIntervalId' = 0
    /\ lastPost' = NoPost
    /\ lastRun' = NoRun
    /\ stopped' = TRUE
    /\ UNCHANGED <<activationVars, agentId, registrationAttempts, gatewayStartTime, errorVars,
                   traceVars, tasks, hostVars, regIssued, turnTrace>>

(* The callback of setInterval: syncConfig()                               *)
TimerTick ==
    /\ timers # {} /\ HasFreeSlot
    /\ LET task == NewTask("timer", Null, 0, 0, <<>>, NoInput)
           r == ContinueSync(task, agentId, registrationAttempts)
       IN  Apply(FreeSlot, r, tasks, sessionTraces, regIssued)
    /\ UNCHANGED <<configVars, agentId, gatewayStartTime, errorVars, nextTrace, hostVars>>

(* The callback running its block whether or not an identity exists        *)
DelayedInit_always ==
    /\ delayedPending /\ HasFreeSlot
    /\ delayedPending' = FALSE
    /\ gatewayStartTime' = IF gatewayStartTime = Null THEN "date" ELSE gatewayStartTime
    /\ LET task == NewTask("delayed", Null, 0, 0, <<>>, NoInput)
           r == DirectRegister(task, agentId, registrationAttempts)
       IN  Apply(FreeSlot, r, tasks, sessionTraces, regIssued)
    /\ UNCHANGED <<apiKey, activated, attached, input, config, stopped, agentId,
                   errorVars, nextTrace, hostVars>>

(* The callback of setTimeout(..., 5000)                                   *)
DelayedInit ==
    /\ delayedPending /\ HasFreeSlot
    /\ delayedPending' = FALSE
    /\ gatewayStartTime' = IF ~Truthy(agentId) /\ gatewayStartTime = Null
                           THEN "date" ELSE gatewayStartTime
    /\ LET task == NewTask("delayed", Null, 0, 0, <<>>, NoInput)
           r == IF ~Truthy(agentId)
                THEN DirectRegister(task, agentId, registrationAttempts)
                ELSE Outcome(task, registrationAttempts, NoPost, TRUE, FALSE)
       IN  Apply(FreeSlot, r, tasks, sessionTraces, regIssued)
    /\ UNCHANGED <<apiKey, activated, attached, input, config, stopped, agentId,
                   errorVars, nextTrace, hostVars>>

(* The host: a message or a tool call belongs to the open turn of its      *)
(* session or opens the next one; agent_end ends the turn.                 *)
CanJoinTurn(key) == hostActive[key] \/ hostTurn[key] < MaxTurns
JoinedTurn(key) == IF hostActive[key] THEN hostTurn[key] ELSE hostTurn[key] + 1
CanOpenTrace(key) == sessionTraces[TraceKey(key)] # 0 \/ nextTrace <= MaxTraces

(* api.on('message_received')                                              *)
MessageReceived(key, content) ==
    /\ attached /\ HasFreeSlot /\ CanJoinTurn(key) /\ CanOpenTrace(key)
    /\ LET g == GetOrCreateTraceId(key, sessionTraces, nextTrace)
           e == Event("message", "user", g.traceId, EmptyStr, OrEmpty(content),
                      EmptyStr, <<>>)
           task == NewTask("message_received", key, JoinedTurn(key), g.traceId, <<e>>,
                           NoInput)
           r == ContinueSends(task, agentId, registrationAttempts)
       IN  /\ Apply(FreeSlot, r, tasks, g.traces, regIssued)
           /\ nextTrace' = g.next
    /\ hostTurn' = [hostTurn EXCEPT ![key] = JoinedTurn(key)]
    /\ hostActive' = [hostActive EXCEPT ![key] = TRUE]
    /\ UNCHANGED <<configVars, agentId, gatewayStartTime, errorVars>>

(* api.on('message_sent')                                                  *)
MessageSent(key, content) ==
    /\ attached /\ HasFreeSlot /\ hostActive[key] /\ CanOpenTrace(key)
    /\ LET g == GetOrCreateTraceId(key, sessionTraces, nextTrace)
           e == Event("message", "assistant", g.traceId, EmptyStr, OrEmpty(content),
                      EmptyStr, <<>>)
           task == NewTask("message_sent", key, hostTurn[key], g.traceId, <<e>>, NoInput)
           r == ContinueSends(task, agentId, registrationAttempts)
       IN  /\ Apply(FreeSlot, r, tasks, g.traces, regIssued)
           /\ nextTrace' = g.next
    /\ UNCHANGED <<configVars, agentId, gatewayStartTime, errorVars, hostVars>>

(* a full buffer that drops the new record instead of the oldest           *)
PushError_dropsNewest(errors, record) ==
    LET pushed == Append(errors, record) IN
    IF Len(pushed) > ERROR_BUFFER_SIZE THEN errors ELSE pushed

(* recentErrors.push(...); if (recentErrors.length > 10) recentErrors.shift() *)
PushError(errors, record) ==
    LET pushed == Append(errors, record) IN
    IF Len(pushed) > ERROR_BUFFER_SIZE THEN Tail(pushed) ELSE pushed

(* after_tool_call recording every call as a failure                      *)
AfterToolCall_countsAll(key, isError, cap) ==
    /\ attached /\ HasFreeSlot /\ CanJoinTurn(key) /\ CanOpenTrace(key)
    /\ errorCount < cap
    /\ errorCount' = errorCount + 1
    /\ recentErrors' =
         PushError(recentErrors,
                   [time |-> failures + 1, message |-> "Tool error", tool |-> "t"])
    /\ failures' = IF isError THEN failures + 1 ELSE failures
    /\ LET g == GetOrCreateTraceId(key, sessionTraces, nextTrace)
           e == Event("tool_call", "", g.traceId, <<"t">>, EmptyStr, EmptyStr, <<>>)
           task == NewTask("after_tool_call", key, JoinedTurn(key), g.traceId, <<e>>,
                           NoInput)
           r == ContinueSends(task, agentId, registrationAttempts)
       IN  /\ Apply(FreeSlot, r, tasks, g.traces, regIssued)
           /\ nextTrace' = g.next
    /\ hostTurn' = [hostTurn EXCEPT ![key] = JoinedTurn(key)]
    /\ hostActive' = [hostActive EXCEPT ![key] = TRUE]
    /\ UNCHANGED <<configVars, agentId, gatewayStartTime>>

(* api.on('after_tool_call'); cap bounds the failures a run of the model   *)
(* records.  The time of a record is the number of the failure since the   *)
(* last gateway_start.                                                     *)
AfterToolCall(key, isError, cap) ==
    /\ attached /\ HasFreeSlot /\ CanJoinTurn(key) /\ CanOpenTrace(key)
    /\ isError => errorCount < cap
    /\ errorCount' = IF isError THEN errorCount + 1 ELSE errorCount
    /\ recentErrors' =
         IF isError
         THEN PushError(recentErrors,
                        [time |-> failures + 1, message |-> "Tool error", tool |-> "t"])
         ELSE recentErrors
    /\ failures' = IF isError THEN failures + 1 ELSE failures
    /\ LET g == GetOrCreateTraceId(key, sessionTraces, nextTrace)
           e == Event("tool_call", "", g.traceId, <<"t">>, EmptyStr, EmptyStr, <<>>)
           task == NewTask("after_tool_call", key, JoinedTurn(key), g.traceId, <<e>>,
                           NoInput)
           r == ContinueSends(task, agentId, registrationAttempts)
       IN  /\ Apply(FreeSlot, r, tasks, g.traces, regIssued)
           /\ nextTrace' = g.next
    /\ hostTurn' = [hostTurn EXCEPT ![key] = JoinedTurn(key)]
    /\ hostActive' = [hostActive EXCEPT ![key] = TRUE]
    /\ UNCHANGED <<configVars, agentId, gatewayStartTime>>

(* api.on('agent_end')                                                     *)
AgentEnd(key, event) ==
    /\ attached /\ HasFreeSlot /\ hostActive[key] /\ CanOpenTrace(key)
    /\ LET g == GetOrCreateTraceId(key, sessionTraces, nextTrace)
           task == NewTask("agent_end", key, hostTurn[key], g.traceId,
                           AgentEndEvents(event, g.traceId), event)
           r == ContinueSends(task, agentId, registrationAttempts)
       IN  /\ Apply(FreeSlot, r, tasks, g.traces, regIssued)
           /\ nextTrace' = g.next
    /\ hostActive' = [hostActive EXCEPT ![key] = FALSE]
    /\ UNCHANGED <<configVars, agentId, gatewayStartTime, errorVars, hostTurn>>

(* The response of POST /agents/register reaches registerAgent: result is  *)
(* result?.agent_id, Null when the transport returned null or the body     *)
(* holds no identity.                                                      *)
RegResponse(t, result) ==
    /\ tasks[t].pc \in {"reg", "gate"}
    /\ LET ok == Truthy(result)
           aid == IF ok THEN result ELSE agentId
           r == AfterRegister(tasks[t], ok, aid, registrationAttempts)
       IN  /\ agentId' = aid
           /\ Apply(t, r, tasks, sessionTraces, regIssued)
    /\ UNCHANGED <<configVars, gatewayStartTime, errorVars, nextTrace, hostVars>>

(* The response of POST /events or POST /agents/{agentId}/config, whatever *)
(* it is, resumes the handler.                                             *)
PostResponse(t) ==
    /\ tasks[t].pc = "post"
    /\ Apply(t, AfterPost(tasks[t], agentId, registrationAttempts), tasks,
             sessionTraces, regIssued)
    /\ UNCHANGED <<configVars, agentId, gatewayStartTime, errorVars, nextTrace, hostVars>>

----------------------------------------------------------------------------
(* The transport.  What a fetch can come to: a 2xx response whose JSON     *)
(* body holds an agent_id or none ("ok"), a response that is not ok        *)
(* ("status"), a rejected fetch ("exception"), a 2xx response whose body   *)
(* is not JSON ("malformed").                                              *)

Responses ==
    {[kind |-> "ok", agent_id |-> a] : a \in AgentIds \cup {Null}}
    \cup {[kind |-> k, agent_id |-> Null] : k \in {"status", "exception", "malformed"}}

NullResult == [ret |-> "null", agent_id |-> Null]

(* return response.json() without await: the rejection of json() is not    *)
(* caught by the try block                                                 *)
SendToAgentDog_uncaughtJson(response) ==
    CASE response.kind = "ok" -> [ret |-> "value", agent_id |-> response.agent_id]
      [] response.kind = "malformed" -> [ret |-> "throw", agent_id |-> Null]
      [] OTHER -> NullResult

(* sendToAgentDog from its fetch on: the parsed body, or null for a        *)
(* response that is not ok and for whatever the try block catches, the     *)
(* rejection of json() included.  agent_id is result?.agent_id.            *)
SendToAgentDog(response) ==
    IF response.kind = "ok"
    THEN [ret |-> "value", agent_id |-> response.agent_id]
    ELSE NullResult

(* An exception that leaves sendToAgentDog rejects every await up to the   *)
(* handler, which ends there: none of its later statements runs.           *)
Abort(t) ==
    /\ tasks' = [tasks EXCEPT ![t] = IdleTask]
    /\ lastPost' = NoPost
    /\ lastRun' = NoRun
    /\ UNCHANGED <<configVars, agentId, registrationAttempts, syncIntervalId,
                   gatewayStartTime, errorVars, traceVars, timers, hostVars, regIssued,
                   turnTrace>>

(* The fetch of the suspended handler t settles with the response.         *)
Settle(t, response) ==
    /\ tasks[t].pc # "idle"
    /\ LET out == SendToAgentDog(response) IN
       IF out.ret = "throw" THEN Abort(t)
       ELSE IF tasks[t].pc \in {"reg", "gate"} THEN RegResponse(t, out.agent_id)
       ELSE PostResponse(t)

----------------------------------------------------------------------------
(* The events of the host in the full model.                               *)

Contents == {<<"h">>}

SpecEvents ==
    { AgentEndEvent(FALSE, <<>>, TRUE),
      AgentEndEvent(TRUE, <<>>, FALSE),
      AgentEndEvent(TRUE,
          <<Msg("user", "str", <<>>),
            Msg("assistant", "arr", <<Block("toolCall", <<"t">>), Block("text", <<"d">>)>>)>>,
          FALSE) }

MainKeys == {"s1"}

Dispatch ==
    \/ \E key \in ApiKeys : Register(key)
    \/ GatewayStart
    \/ Heartbeat
    \/ GatewayStop
    \/ TimerTick
    \/ DelayedInit
    \/ \E key \in MainKeys, content \in Contents : MessageReceived(key, content)
    \/ \E key \in MainKeys, content \in Contents : MessageSent(key, content)
    \/ \E key \in MainKeys, isError \in BOOLEAN : AfterToolCall(key, isError, MaxErrors)
    \/ \E key \in MainKeys, event \in SpecEvents : AgentEnd(key, event)

Resume ==
    \/ \E t \in Slots, result \in AgentIds \cup {Null} : RegResponse(t, result)
    \/ \E t \in Slots : PostResponse(t)

Next == Dispatch \/ Resume

Spec == Init /\ [][Next]_vars

(* The handlers against every outcome of the transport.                    *)
NextTransport ==
    \/ \E key \in ApiKeys : Register(key)
    \/ GatewayStart
    \/ \E key \in MainKeys, content \in Contents : MessageReceived(key, content)
    \/ \E key \in MainKeys, event \in SpecEvents : AgentEnd(key, event)
    \/ \E t \in Slots, response \in Responses : Settle(t, response)

SpecTransport == Init /\ [][NextTransport]_vars

----------------------------------------------------------------------------
(* The turn reconstruction on its own: a registered plugin with one open   *)
(* turn of session "s1" (its user message has been reported); the host     *)
(* builds any history within the bounds and signals agent_end with it.     *)

InitTurn ==
    /\ apiKey = <<"a", "d", "_", "1">>
    /\ activated = TRUE
    /\ attached = TRUE
    /\ delayedPending = TRUE
    /\ agentId = "a1"
    /\ registrationAttempts = 1
    /\ syncIntervalId = 0
    /\ gatewayStartTime = Null
    /\ errorCount = 0
    /\ recentErrors = <<>>
    /\ sessionTraces = [k \in TraceKeys |-> IF k = "s1" THEN 1 ELSE 0]
    /\ nextTrace = 2
    /\ timers = {}
    /\ tasks = [t \in Slots |-> IdleTask]
    /\ hostTurn = [k \in SessionKeys |-> IF k = "s1" THEN 1 ELSE 0]
    /\ hostActive = [k \in SessionKeys |-> k = "s1"]
    /\ failures = 0
    /\ input = <<>>
    /\ config = DefaultConfig
    /\ stopped = FALSE
    /\ lastPost = NoPost
    /\ lastRun = NoRun
    /\ regIssued = 1
    /\ turnTrace = [k \in SessionKeys |-> [n \in 1..MaxTurns |-> IF k = "s1" /\ n = 1 THEN 1 ELSE 0]]

(* The host appends a message to the history of the open turn.             *)
HostAppend(m) ==
    /\ hostActive["s1"]
    /\ Len(input) < MaxMsgs
    /\ BlockCount(input) + Len(m.blocks) <= MaxBlocks
    /\ input' = Append(input, m)
    /\ lastPost' = NoPost
    /\ lastRun' = NoRun
    /\ UNCHANGED <<apiKey, activated, attached, delayedPending, agentId,
                   registrationAttempts, syncIntervalId, gatewayStartTime, errorVars,
                   traceVars, timers, tasks, hostVars, regIssued, turnTrace, config, stopped>>

(* The host replaces its configuration; syncConfig reads api.config when   *)
(* it runs.                                                                *)
HostConfig(c) ==
    /\ config' = c
    /\ lastPost' = NoPost
    /\ lastRun' = NoRun
    /\ UNCHANGED <<apiKey, activated, attached, delayedPending, input, stopped, agentId,
                   registrationAttempts, syncIntervalId, gatewayStartTime, errorVars,
                   traceVars, timers, tasks, hostVars, regIssued, turnTrace>>

(* The agent_end events the host can make of a history: with or without   *)
(* usage data, and without a messages array when there is no history.      *)
EventsOf(history) ==
    {AgentEndEvent(TRUE, history, usage) : usage \in BOOLEAN}
    \cup (IF history = <<>>
          THEN {AgentEndEvent(FALSE, <<>>, usage) : usage \in BOOLEAN} ELSE {})

NextTurn ==
    \/ \E m \in Messages : HostAppend(m)
    \/ \E event \in EventsOf(input) : AgentEnd("s1", event)
    \/ \E t \in Slots : PostResponse(t)

SpecTurn == InitTurn /\ [][NextTurn]_vars

----------------------------------------------------------------------------
(* The accumulation of thinking on its own: the same plugin and turn, with *)
(* histories of assistant messages whose blocks are text and thinking,     *)
(* among them a thinking block without a value.                            *)

ThinkingBlocks ==
    { Block("text", <<"d">>), Block("thinking", <<"a">>), Block("thinking", <<"b">>),
      Block("thinking", Undef) }

RECURSIVE ThinkingBlockSeqs(_)
ThinkingBlockSeqs(k) ==
    IF k = 0 THEN {<<>>}
    ELSE {Append(s, b) : s \in ThinkingBlockSeqs(k - 1), b \in ThinkingBlocks}

ThinkingMessages ==
    {Msg("user", "str", <<>>)}
    \cup {Msg("assistant", "arr", bs) : bs \in UNION {ThinkingBlockSeqs(k) : k \in 1..MaxBlocks}}

NextThinking ==
    \/ \E m \in ThinkingMessages : HostAppend(m)
    \/ \E event \in EventsOf(input) : AgentEnd("s1", event)
    \/ \E t \in Slots : PostResponse(t)

SpecThinking == InitTurn /\ [][NextThinking]_vars

----------------------------------------------------------------------------
(* Assistant replies whose content is a plain string: the same plugin and  *)
(* turn, with histories in which an assistant message is a string (kind    *)
(* "str", its characters held as one text value), a text block or a        *)
(* toolCall block.                                                         *)

StringMessages ==
    { Msg("user", "str", <<>>),
      Msg("assistant", "str", <<Block("text", <<"s">>)>>),
      Msg("assistant", "arr", <<Block("text", <<"d">>)>>),
      Msg("assistant", "arr", <<Block("toolCall", <<"t">>)>>) }

NextString ==
    \/ \E m \in StringMessages : HostAppend(m)
    \/ \E event \in EventsOf(input) : AgentEnd("s1", event)
    \/ \E t \in Slots : PostResponse(t)

SpecString == InitTurn /\ [][NextString]_vars

----------------------------------------------------------------------------
(* The error buffer on its own: the same registered plugin and turn, with  *)
(* tool calls that fail or succeed and gateway starts between them.        *)

NextErrors ==
    \/ \E isError \in BOOLEAN : AfterToolCall("s1", isError, MaxFailures)
    \/ GatewayStart
    \/ \E t \in Slots : PostResponse(t)

SpecErrors == InitTurn /\ [][NextErrors]_vars

(* The trace Map on its own: a registered plugin and the signals of two    *)
(* sessions, one with a session key and one without.                       *)
NextTraces ==
    \/ \E key \in SessionKeys, content \in Contents : MessageReceived(key, content)
    \/ \E key \in SessionKeys : AfterToolCall(key, FALSE, MaxErrors)
    \/ \E key \in SessionKeys, event \in SpecEvents : AgentEnd(key, event)
    \/ \E t \in Slots : PostResponse(t)

SpecTraces == InitTurn /\ [][NextTraces]_vars

(* The config sync on its own: a registered plugin, a host that holds any  *)
(* configuration, and the heartbeat that syncs it.                         *)
NextConfig ==
    \/ \E c \in Configs : HostConfig(c)
    \/ Heartbeat
    \/ \E t \in Slots : PostResponse(t)

SpecConfig == InitTurn /\ [][NextConfig]_vars

----------------------------------------------------------------------------
(* Handlers handled one after another: the host signals the next event     *)
(* only when every handler has returned.                                   *)

Quiet == \A t \in Slots : tasks[t].pc = "idle"

NextSeq ==
    \/ Quiet /\ \E key \in ApiKeys : Register(key)
    \/ Quiet /\ GatewayStart
    \/ Quiet /\ Heartbeat
    \/ Quiet /\ GatewayStop
    \/ Quiet /\ TimerTick
    \/ Quiet /\ DelayedInit
    \/ Quiet /\ \E key \in MainKeys, content \in Contents : MessageReceived(key, content)
    \/ Quiet /\ \E key \in MainKeys, content \in Contents : MessageSent(key, content)
    \/ Quiet /\ \E key \in MainKeys, isError \in BOOLEAN :
                   AfterToolCall(key, isError, MaxErrors)
    \/ Quiet /\ \E key \in MainKeys, event \in SpecEvents : AgentEnd(key, event)
    \/ Resume

SpecSeq == Init /\ [][NextSeq]_vars

----------------------------------------------------------------------------
(* Properties.                                                             *)

InFlightRegistrations ==
    {t \in Slots : tasks[t].pc \in {"reg", "gate"}}

(* registration requests issued since the last reset that have failed,     *)
(* meaningful while agentId is still null                                  *)
FailedAttempts ==
    regIssued - Cardinality({t \in InFlightRegistrations : tasks[t].counted})

Exhausted == agentId = Null /\ registrationAttempts >= MAX_REGISTRATION_ATTEMPTS

(* C1: when the handlers of a turn (message_received, after_tool_call,     *)
(* agent_end) are handled one after another, every event posted for the    *)
(* turn carries the trace id of the first event posted for it, and two     *)
(* consecutive turns of a session carry different trace ids.               *)
C1_OneTraceIdPerTurn ==
    /\ (lastPost.path = "/events" /\ lastPost.turn # 0)
          => lastPost.event.trace_id = turnTrace[lastPost.key][lastPost.turn]
    /\ \A k \in SessionKeys, n \in 1..(MaxTurns - 1) :
          (turnTrace[k][n] # 0 /\ turnTrace[k][n + 1] # 0)
             => turnTrace[k][n] # turnTrace[k][n + 1]

(* an event of agent_end is posted for the second turn of "s1" after a     *)
(* tool failure was recorded and events of the first turn were posted      *)
C1_Witness ==
    /\ lastPost.path = "/events" /\ lastPost.by = "agent_end"
    /\ lastPost.key = "s1" /\ lastPost.turn = 2
    /\ turnTrace["s1"][1] # 0
    /\ turnTrace["s1"][2] = lastPost.event.trace_id
    /\ errorCount = 1

(* C2: every POST to /events or /agents/{agentId}/config carries a         *)
(* non-empty agent id, the one the plugin holds.                           *)
C2_NothingSentUnregistered ==
    lastPost.path \in {"/events", "/agents/{agentId}/config"}
       => (Truthy(lastPost.agent_id) /\ lastPost.agent_id = agentId)

(* an event is posted by a handler that had to register first              *)
C2_Witness ==
    /\ lastPost.path = "/events"
    /\ lastPost.by = "message_received"
    /\ regIssued >= 1

(* C3: with no identity, three failed registration attempts leave the      *)
(* counter at 3, and from a state with no identity and the counter at 3    *)
(* only a gateway_start, which resets the counter, issues a registration   *)
(* request: every other call of registerAgent issues none.                 *)
C3_RetryBudget ==
    /\ []((agentId = Null /\ FailedAttempts = 3)
             => registrationAttempts = MAX_REGISTRATION_ATTEMPTS)
    /\ [][(Exhausted /\ lastPost'.path = "/agents/register")
             => (lastPost'.by = "gateway_start" /\ registrationAttempts' = 1)]_vars

(* three attempts have failed and an agent_end run has returned whose      *)
(* second sendEvent found the budget spent: nothing was requested          *)
C3_Witness ==
    /\ Exhausted /\ FailedAttempts = 3
    /\ lastRun.runs = 1 /\ Len(lastRun.calls) >= 2
    /\ lastPost = NoPost

(* C4: once agentId is set, no step changes it.                            *)
C4_IdentityNeverMutated == [][Truthy(agentId) => agentId' = agentId]_vars

(* C5: the attempt counter never exceeds 3, and at most 3 registration     *)
(* requests are issued between two resets of the counter.                  *)
C5_BudgetExact ==
    /\ registrationAttempts <= MAX_REGISTRATION_ATTEMPTS
    /\ regIssued <= MAX_REGISTRATION_ATTEMPTS

(* the third request has been issued while another one is still in flight  *)
C5_Witness ==
    /\ regIssued = 3
    /\ Cardinality(InFlightRegistrations) >= 2
    /\ lastPost.path = "/agents/register"

(* C6: a message_received of the next turn, handled while the agent_end of *)
(* the previous turn of the session is suspended, gets a trace id other    *)
(* than the one of the previous turn.                                      *)
C6_NextTurnGetsNewTrace ==
    \A t, u \in Slots :
       (/\ tasks[t].kind = "message_received"
        /\ tasks[u].kind = "agent_end"
        /\ tasks[u].key = tasks[t].key
        /\ tasks[u].turn < tasks[t].turn)
          => tasks[t].traceId # tasks[u].traceId

----------------------------------------------------------------------------
(* The reconstruction, stated on the history.                              *)

(* a user message with a plain string or with a block of type text         *)
RealUserMessage(m) ==
    /\ m.role = "user"
    /\ \/ m.kind = "str"
       \/ m.kind = "arr" /\ "text" \in {m.blocks[j].type : j \in DOMAIN m.blocks}

(* index (0-based) of the last real user message, -1 if there is none      *)
LastRealUser(msgs) ==
    LET real == {i \in 0..(Len(msgs) - 1) : RealUserMessage(msgs[i + 1])} IN
    IF real = {} THEN -1 ELSE CHOOSE i \in real : \A j \in real : j <= i

(* places <<i, j>> of the blocks of a type in the assistant messages after *)
(* index start                                                             *)
PlacesOf(msgs, start, type) ==
    UNION {{<<i, j>> : j \in {j \in DOMAIN msgs[i + 1].blocks : msgs[i + 1].blocks[j].type = type}} :
             i \in {i \in (start + 1)..(Len(msgs) - 1) :
                      msgs[i + 1].role = "assistant" /\ msgs[i + 1].kind = "arr"}}

Before(p, q) == p[1] < q[1] \/ (p[1] = q[1] /\ p[2] < q[2])

LastPlace(places) == CHOOSE p \in places : \A q \in places : q = p \/ Before(q, p)

BlockAt(msgs, p) == msgs[p[1] + 1].blocks[p[2]]

CallsOfType(calls, type) == SelectSeq(calls, LAMBDA e : e.type = type)

Visible(str) == \E n \in DOMAIN str : str[n] \notin Whitespace

(* t is str without the whitespace at its two ends                         *)
IsTrimOf(t, str) ==
    \E i \in 1..(Len(str) + 1), j \in 0..Len(str) :
       /\ t = SubSeq(str, i, j)
       /\ \A n \in 1..(i - 1) : str[n] \in Whitespace
       /\ \A n \in (j + 1)..Len(str) : str[n] \in Whitespace
       /\ t # <<>> => (t[1] \notin Whitespace /\ t[Len(t)] \notin Whitespace)

(* the text places of the scanned range of the run that has just returned  *)
RunTextPlaces ==
    IF lastRun.event.hasMessages
    THEN PlacesOf(lastRun.event.messages, LastRealUser(lastRun.event.messages), "text")
    ELSE {}

RunToolCallPlaces ==
    IF lastRun.event.hasMessages
    THEN PlacesOf(lastRun.event.messages, LastRealUser(lastRun.event.messages), "toolCall")
    ELSE {}

(* C7: an agent_end run hands sendEvent exactly one assistant message      *)
(* event when the last text block of the scanned range is non-empty after  *)
(* trimming and none otherwise, and exactly one usage event when the       *)
(* signal carries usage data and none otherwise.                           *)
C7_MessageAndUsage ==
    lastRun.runs = 1 =>
       LET messages == CallsOfType(lastRun.calls, "message")
           usages == CallsOfType(lastRun.calls, "usage")
           hasText == /\ RunTextPlaces # {}
                      /\ Visible(BlockAt(lastRun.event.messages, LastPlace(RunTextPlaces)).val)
       IN  /\ Len(messages) = IF hasText THEN 1 ELSE 0
           /\ \A n \in DOMAIN messages : messages[n].role = "assistant"
           /\ Len(usages) = IF lastRun.event.usage THEN 1 ELSE 0

(* a run whose only text is blank: no message event, one usage event       *)
C7_Witness ==
    /\ lastRun.runs = 1
    /\ lastRun.event.usage
    /\ RunTextPlaces # {}
    /\ CallsOfType(lastRun.calls, "message") = <<>>
    /\ Len(CallsOfType(lastRun.calls, "usage")) = 1

(* C8: the turn start is the last user message whose content is a string   *)
(* or holds a text block, -1 when there is none; with -1 the tool calls of *)
(* the whole history are reported.                                         *)
C8_TurnStart ==
    (lastRun.runs = 1 /\ lastRun.event.hasMessages) =>
       LET msgs == lastRun.event.messages IN
       /\ lastRun.turnStartIdx = LastRealUser(msgs)
       /\ lastRun.turnStartIdx = -1 =>
             Len(CallsOfType(lastRun.calls, "tool_call"))
                = Cardinality(PlacesOf(msgs, -1, "toolCall"))

(* the history [user(text), assistant(toolCall), user(tool-result)]        *)
C8_Witness ==
    /\ lastRun.runs = 1
    /\ lastRun.event.hasMessages
    /\ lastRun.event.messages =
          << Msg("user", "arr", <<Block("text", <<"d">>)>>),
             Msg("assistant", "arr", <<Block("toolCall", <<"t">>)>>),
             Msg("user", "arr", <<Block("toolResult", EmptyStr)>>) >>
    /\ lastRun.turnStartIdx = 0
    /\ Len(CallsOfType(lastRun.calls, "tool_call")) = 1

(* C9: the tool_call events of an agent_end run are, in history order, one *)
(* for each toolCall block of the assistant messages after the turn start, *)
(* and no other.                                                           *)
C9_ToolCallPerBlock ==
    lastRun.runs = 1 =>
       LET calls == CallsOfType(lastRun.calls, "tool_call") IN
       /\ Len(calls) = Cardinality(RunToolCallPlaces)
       /\ \A n \in DOMAIN calls :
             /\ calls[n].at \in RunToolCallPlaces
             /\ calls[n].name = BlockAt(lastRun.event.messages, calls[n].at).val
       /\ \A n \in 1..(Len(calls) - 1) : Before(calls[n].at, calls[n + 1].at)

(* two toolCall blocks after the turn start are reported, one before it is *)
(* not                                                                     *)
C9_Witness ==
    /\ lastRun.runs = 1
    /\ Len(CallsOfType(lastRun.calls, "tool_call")) = 2
    /\ lastRun.turnStartIdx = 1
    /\ Cardinality(PlacesOf(lastRun.event.messages, -1, "toolCall")) = 3

(* C10: the content of the assistant message event is the trimmed value of *)
(* the last text block of the assistant messages after the turn start.     *)
C10_LastTextWins ==
    lastRun.runs = 1 =>
       \A n \in DOMAIN lastRun.calls :
          lastRun.calls[n].type = "message" =>
             /\ RunTextPlaces # {}
             /\ IsTrimOf(lastRun.calls[n].content,
                         BlockAt(lastRun.event.messages, LastPlace(RunTextPlaces)).val)

(* an assistant message with the text blocks "d" then "f " yields "f"      *)
C10_Witness ==
    /\ lastRun.runs = 1
    /\ \E i \in DOMAIN lastRun.event.messages :
          /\ lastRun.event.messages[i].role = "assistant"
          /\ lastRun.event.messages[i].blocks
                = <<Block("text", <<"d">>), Block("text", <<"f", " ">>)>>
    /\ \E n \in DOMAIN lastRun.calls :
          lastRun.calls[n].type = "message" /\ lastRun.calls[n].content = <<"f">>

(* the values of the blocks at the places, in history order, with a line   *)
(* break between two of them; a block without a value counts as ''         *)
RECURSIVE JoinPlaces(_, _)
JoinPlaces(msgs, places) ==
    IF places = {} THEN <<>>
    ELSE LET p == CHOOSE p \in places : \A q \in places : q = p \/ Before(p, q)
             val == BlockAt(msgs, p).val
         IN  (IF val = Undef THEN <<>> ELSE val)
             \o (IF places = {p} THEN <<>> ELSE <<"\n">>)
             \o JoinPlaces(msgs, places \ {p})

RunThinkingPlaces ==
    IF lastRun.event.hasMessages
    THEN PlacesOf(lastRun.event.messages, LastRealUser(lastRun.event.messages), "thinking")
    ELSE {}

(* C11 as stated: the thinking of the assistant message event is the       *)
(* values of the thinking blocks of the scanned range, in history order,   *)
(* with a line break between two of them.                                  *)
C11_ThinkingJoined ==
    lastRun.runs = 1 =>
       \A n \in DOMAIN lastRun.calls :
          lastRun.calls[n].type = "message" =>
             lastRun.calls[n].thinking = JoinPlaces(lastRun.event.messages, RunThinkingPlaces)

(* C11 amended: the thinking of the assistant message event is that        *)
(* concatenation with the whitespace at its two ends removed.              *)
C11_ThinkingJoinedTrimmed ==
    lastRun.runs = 1 =>
       \A n \in DOMAIN lastRun.calls :
          lastRun.calls[n].type = "message" =>
             IsTrimOf(lastRun.calls[n].thinking,
                      JoinPlaces(lastRun.event.messages, RunThinkingPlaces))

(* the thinking blocks "a" and "b" of two assistant messages yield "a\nb"  *)
C11_Witness ==
    /\ lastRun.runs = 1
    /\ Len(lastRun.event.messages) = 2
    /\ Cardinality(RunThinkingPlaces) = 2
    /\ \E n \in DOMAIN lastRun.calls :
          /\ lastRun.calls[n].type = "message"
          /\ lastRun.calls[n].thinking = <<"a", "\n", "b">>

(* C12: when an agent_end run returns, the Map holds no trace for its      *)
(* session; a run with no toolCall and no text block in its range has      *)
(* handed sendEvent the usage event alone, if the signal carries usage     *)
(* data, and nothing otherwise; a run with thinking and no text has handed *)
(* it no message event.                                                    *)
C12_TraceClosed ==
    lastRun.runs = 1 =>
       /\ sessionTraces[TraceKey(lastRun.key)] = 0
       /\ (RunToolCallPlaces = {} /\ RunTextPlaces = {}) =>
             /\ Len(lastRun.calls) = IF lastRun.event.usage THEN 1 ELSE 0
             /\ \A n \in DOMAIN lastRun.calls : lastRun.calls[n].type = "usage"
       /\ (RunThinkingPlaces # {} /\ RunTextPlaces = {}) =>
             CallsOfType(lastRun.calls, "message") = <<>>

(* a run whose only assistant content is thinking, without usage data, has *)
(* returned: nothing was sent and the trace is closed                      *)
C12_Witness ==
    /\ lastRun.runs = 1
    /\ RunThinkingPlaces # {} /\ RunTextPlaces = {} /\ RunToolCallPlaces = {}
    /\ ~lastRun.event.usage
    /\ lastRun.calls = <<>>
    /\ lastRun.traceId # 0
    /\ sessionTraces[TraceKey(lastRun.key)] = 0

(* C13: at most one setInterval timer is live, and syncIntervalId is its   *)
(* handle (null when none is live).                                        *)
C13_OneTimer ==
    /\ Cardinality(timers) <= 1
    /\ timers = {} => syncIntervalId = 0
    /\ timers # {} => timers = {syncIntervalId}

(* a gateway_start has installed its timer in place of a live one: the     *)
(* second handle is the only live one                                      *)
C13_Witness ==
    /\ syncIntervalId = 2
    /\ timers = {2}

(* a step in which a gateway_start handler is dispatched: it always        *)
(* suspends in a fetch, so a task of this kind appears                     *)
GatewayStartStep ==
    \E t \in Slots : tasks[t].pc = "idle" /\ tasks'[t].kind = "gateway_start"

(* C14: the dispatch of gateway_start resets the error buffer, the error   *)
(* counter, the attempt counter and the start timestamp and goes on to     *)
(* registration, which issues POST /agents/register counted as attempt 1   *)
(* when there is no identity and is followed at once by the config POST    *)
(* when there is one; the handler issues its config POST only after its    *)
(* registration has returned and nothing after it; it touches the timer    *)
(* in no step but the one in which it returns, and in that step, after     *)
(* the sync has returned, it leaves a new timer as the only live one.      *)
C14_StartOrder ==
    /\ [][GatewayStartStep =>
            /\ errorCount' = 0 /\ recentErrors' = <<>>
            /\ gatewayStartTime' = "date"
            /\ registrationAttempts' = (IF Truthy(agentId) THEN 0 ELSE 1)
            /\ lastPost'.by = "gateway_start"
            /\ lastPost'.path = (IF Truthy(agentId) THEN "/agents/{agentId}/config"
                                 ELSE "/agents/register")
            /\ UNCHANGED <<syncIntervalId, timers>>]_vars
    /\ [][\A t \in Slots :
            (tasks[t].kind = "gateway_start" /\ tasks'[t].pc # tasks[t].pc) =>
               /\ tasks'[t].pc \in {"gate", "post", "idle"}
               /\ tasks[t].pc = "post" => tasks'[t].pc = "idle"
               /\ tasks'[t].pc = "post" =>
                     /\ lastPost'.path = "/agents/{agentId}/config"
                     /\ lastPost'.by = "gateway_start"
                     /\ UNCHANGED <<syncIntervalId, timers>>
               /\ tasks'[t].pc = "gate" =>
                     /\ tasks[t].pc = "reg" /\ lastPost'.path = "/agents/register"
                     /\ UNCHANGED <<syncIntervalId, timers>>
               /\ tasks'[t].pc = "idle" =>
                     /\ lastPost' = NoPost
                     /\ syncIntervalId' \notin timers \cup {0}
                     /\ timers' = {syncIntervalId'}]_vars

(* a gateway_start has registered, synced and installed the timer: the     *)
(* delayed init has not fired, so the timer is the one of gateway_start    *)
C14_Witness ==
    /\ delayedPending
    /\ Truthy(agentId) /\ regIssued = 1 /\ registrationAttempts = 1
    /\ timers = {1} /\ syncIntervalId = 1
    /\ gatewayStartTime = "date"
    /\ Quiet

(* C15: a gateway_stop step cancels the timer syncIntervalId refers to,    *)
(* sets syncIntervalId to null, issues no request, starts or resumes no    *)
(* handler run, and leaves agentId, registrationAttempts, errorCount,      *)
(* recentErrors, gatewayStartTime and sessionTraces as they are.           *)
C15_StopFrame ==
    [][GatewayStop =>
         /\ timers' = timers \ {syncIntervalId}
         /\ syncIntervalId' = 0
         /\ lastPost' = NoPost
         /\ UNCHANGED <<agentId, registrationAttempts, regIssued, errorCount, recentErrors,
                        gatewayStartTime, sessionTraces, nextTrace, tasks>>]_vars

(* a sync started by the timer is still in flight and no timer is live:    *)
(* gateway_stop has cancelled it, with an identity, a recorded failure and *)
(* an open trace in place                                                  *)
C15_Witness ==
    /\ \E t \in Slots : tasks[t].kind = "timer"
    /\ timers = {} /\ syncIntervalId = 0
    /\ Truthy(agentId)
    /\ errorCount = 1 /\ Len(recentErrors) = 1
    /\ sessionTraces["s1"] # 0

(* C16: the dispatch of heartbeat issues the config POST, with the         *)
(* identity, when there is one; with none it issues POST /agents/register  *)
(* (one more attempt) if the budget allows and nothing otherwise.  When    *)
(* the response of that registration arrives, the handler issues the       *)
(* config POST if the response carries an identity and returns without a   *)
(* request if not; the response of the config POST ends the handler.       *)
C16_HeartbeatSyncs ==
    /\ [][Heartbeat =>
            IF Truthy(agentId)
            THEN /\ lastPost'.path = "/agents/{agentId}/config"
                 /\ lastPost'.by = "heartbeat" /\ lastPost'.agent_id = agentId
                 /\ UNCHANGED <<registrationAttempts, regIssued>>
            ELSE IF registrationAttempts < MAX_REGISTRATION_ATTEMPTS
            THEN /\ lastPost'.path = "/agents/register" /\ lastPost'.by = "heartbeat"
                 /\ registrationAttempts' = registrationAttempts + 1
            ELSE /\ lastPost' = NoPost
                 /\ UNCHANGED <<tasks, registrationAttempts>>]_vars
    /\ [][\A t \in Slots, result \in AgentIds \cup {Null} :
            (tasks[t].kind = "heartbeat" /\ RegResponse(t, result)) =>
               IF Truthy(result)
               THEN /\ lastPost'.path = "/agents/{agentId}/config"
                    /\ lastPost'.by = "heartbeat" /\ lastPost'.agent_id = result
                    /\ tasks'[t].pc = "post"
               ELSE /\ lastPost' = NoPost
                    /\ tasks'[t].pc = "idle"]_vars
    /\ [][\A t \in Slots :
            (tasks[t].kind = "heartbeat" /\ PostResponse(t)) =>
               (lastPost' = NoPost /\ tasks'[t].pc = "idle")]_vars

(* a heartbeat that found no identity has registered and its config POST   *)
(* has just been issued                                                    *)
C16_Witness ==
    /\ lastPost.path = "/agents/{agentId}/config" /\ lastPost.by = "heartbeat"
    /\ \E t \in Slots :
          tasks[t].kind = "heartbeat" /\ tasks[t].pc = "post" /\ tasks[t].counted

(* C17: the error counter is the number of failures signalled since the   *)
(* last gateway_start, and the buffer holds the records of the last        *)
(* min(that number, 10) of them, oldest first; it never holds more than    *)
(* 10.                                                                     *)
C17_ErrorBuffer ==
    LET kept == IF failures < 10 THEN failures ELSE 10 IN
    /\ errorCount = failures
    /\ Len(recentErrors) = kept
    /\ \A i \in DOMAIN recentErrors : recentErrors[i].time = failures - kept + i
    /\ Len(recentErrors) <= 10

(* 15 failures have been recorded: the buffer holds the 6th to the 15th    *)
C17_Witness ==
    /\ failures = 15
    /\ errorCount = 15
    /\ Len(recentErrors) = 10
    /\ recentErrors[1].time = 6 /\ recentErrors[10].time = 15

(* C18: a step that is not the dispatch of gateway_start leaves           *)
(* errorCount and recentErrors as they are or is an after_tool_call with   *)
(* isError that adds one to the counter; the dispatch of gateway_start     *)
(* resets both; an after_tool_call without isError changes neither.        *)
C18_ErrorsResetOnlyByStart ==
    /\ [][\/ GatewayStartStep /\ errorCount' = 0 /\ recentErrors' = <<>>
          \/ UNCHANGED <<errorCount, recentErrors>>
          \/ /\ \E key \in MainKeys : AfterToolCall(key, TRUE, MaxErrors)
             /\ errorCount' = errorCount + 1]_vars
    /\ [][errorCount' < errorCount => GatewayStartStep]_vars
    /\ [][\A key \in MainKeys :
            AfterToolCall(key, FALSE, MaxErrors) => UNCHANGED <<errorCount, recentErrors>>]_vars

(* two after_tool_call handlers are in flight, one of them for a failure,  *)
(* and no gateway_start has run since the plugin was loaded                *)
C18_Witness ==
    /\ \A t \in Slots : tasks[t].kind = "after_tool_call"
    /\ errorCount = 1 /\ Len(recentErrors) = 1
    /\ gatewayStartTime = Null

(* C19 as stated: a handler run whose ensureRegistered call has issued a   *)
(* registration request issues none in its next ensureRegistered call.     *)
C19_AtMostOneRequest ==
    [][\A t \in Slots :
         (tasks[t].kind \in EventKinds /\ tasks[t].pc = "gate"
             /\ tasks'[t].pc # "idle" /\ tasks'[t].queue # tasks[t].queue)
            => lastPost'.path # "/agents/register"]_vars

(* C19 amended: a step that ends with an identity in place issues no       *)
(* registration request and leaves the attempt counter as it is (or at 0,  *)
(* in the dispatch of gateway_start); a handler run issues a registration  *)
(* request in the ensureRegistered call that follows one that has issued   *)
(* one only if there is no identity.                                       *)
C19_NoOpOnceRegistered ==
    /\ [][Truthy(agentId') =>
            /\ lastPost'.path # "/agents/register"
            /\ registrationAttempts' = (IF GatewayStartStep THEN 0 ELSE registrationAttempts)
            /\ regIssued' = (IF GatewayStartStep THEN 0 ELSE regIssued)]_vars
    /\ [][\A t \in Slots :
            (tasks[t].kind \in EventKinds /\ tasks[t].pc = "gate"
                /\ tasks'[t].pc # "idle" /\ tasks'[t].queue # tasks[t].queue
                /\ lastPost'.path = "/agents/register")
               => agentId' = Null]_vars

(* an agent_end run has registered in its first sendEvent and its second   *)
(* sendEvent has posted at once: of the two registration requests issued,  *)
(* one is the run's and the other the one a message_received still waits   *)
(* for                                                                     *)
C19_Witness ==
    /\ regIssued = 2 /\ Truthy(agentId)
    /\ lastPost.path = "/events" /\ lastPost.by = "agent_end"
    /\ \E t, u \in Slots :
          /\ tasks[t].kind = "agent_end" /\ tasks[t].pc = "post"
          /\ tasks[t].counted /\ Len(tasks[t].calls) = 2
          /\ tasks[u].kind = "message_received" /\ tasks[u].pc = "gate"
          /\ tasks[u].counted

(* C20: from a state with no identity and the attempt counter at 3, a      *)
(* step that is not the dispatch of gateway_start and leaves no identity   *)
(* issues no request, suspends no handler and keeps the counter; the       *)
(* counter decreases in no step but the dispatch of gateway_start, which   *)
(* from such a state issues POST /agents/register as attempt 1.            *)
C20_ExhaustedUntilStart ==
    /\ [][(Exhausted /\ agentId' = Null /\ ~GatewayStartStep) =>
            /\ lastPost' = NoPost
            /\ registrationAttempts' = registrationAttempts
            /\ \A t \in Slots : tasks[t].pc = "idle" => tasks'[t].pc = "idle"]_vars
    /\ [][registrationAttempts' < registrationAttempts => GatewayStartStep]_vars
    /\ [][(Exhausted /\ GatewayStartStep) =>
            /\ registrationAttempts' = 1
            /\ lastPost'.path = "/agents/register"]_vars

(* with the budget spent and the timer of a failed gateway_start live, an  *)
(* agent_end run with usage data has returned without a request while a    *)
(* failure was recorded                                                    *)
C20_Witness ==
    /\ Exhausted /\ Quiet
    /\ timers # {}
    /\ lastRun.runs = 1 /\ lastRun.event.usage /\ Len(lastRun.calls) = 1
    /\ lastPost = NoPost
    /\ errorCount = 1

(* C21: with no identity and the budget not spent, the dispatch of a       *)
(* handler that has an event or the config to send issues POST             *)
(* /agents/register; when the response carries an identity, the same run   *)
(* goes on at once to post its own event or the config with that identity. *)
C21_LazyRegistration ==
    /\ [][(/\ agentId = Null /\ registrationAttempts < MAX_REGISTRATION_ATTEMPTS
           /\ \/ Heartbeat \/ TimerTick
              \/ \E key \in MainKeys, content \in Contents :
                    MessageReceived(key, content) \/ MessageSent(key, content)
              \/ \E key \in MainKeys, isError \in BOOLEAN :
                    AfterToolCall(key, isError, MaxErrors)
              \/ \E key \in MainKeys, event \in SpecEvents :
                    AgentEnd(key, event) /\ AgentEndEvents(event, 0) # <<>>)
            => /\ lastPost'.path = "/agents/register"
               /\ registrationAttempts' = registrationAttempts + 1]_vars
    /\ [][\A t \in Slots, result \in AgentIds :
            (tasks[t].pc = "gate" /\ RegResponse(t, result)) =>
               /\ agentId' = result
               /\ lastPost'.agent_id = result
               /\ lastPost'.by = tasks[t].kind
               /\ IF tasks[t].kind \in EventKinds
                  THEN lastPost'.path = "/events" /\ lastPost'.event = Head(tasks[t].queue)
                  ELSE lastPost'.path = "/agents/{agentId}/config"]_vars

(* no gateway_start, heartbeat or delayed init has run, and a              *)
(* message_received that registered has just posted its event with the     *)
(* identity it obtained                                                    *)
C21_Witness ==
    /\ gatewayStartTime = Null
    /\ lastPost.path = "/events" /\ lastPost.by = "message_received"
    /\ Truthy(agentId) /\ lastPost.agent_id = agentId
    /\ \E t \in Slots :
          tasks[t].kind = "message_received" /\ tasks[t].pc = "post" /\ tasks[t].counted

(* C22: for a response that is not ok, a rejected fetch and a body that is *)
(* not JSON, sendToAgentDog returns null and the handler goes on: agentId  *)
(* stays as it is, the handler posts the next event of its queue if it had *)
(* posted one, and when it returns in that step it has run to its end (an  *)
(* agent_end has closed its trace, a gateway_start has installed its       *)
(* timer).                                                                 *)
C22_TransportNeverThrows ==
    [][\A t \in Slots, response \in Responses :
         (response.kind # "ok" /\ Settle(t, response)) =>
            /\ SendToAgentDog(response) = NullResult
            /\ agentId' = agentId
            /\ (tasks[t].pc = "post" /\ tasks[t].queue # <<>>) =>
                  (lastPost'.path = "/events" /\ lastPost'.event = Head(tasks[t].queue))
            /\ tasks'[t].pc # "idle" => lastPost'.path # "none"
            /\ (tasks'[t].pc = "idle" /\ tasks[t].kind = "agent_end") =>
                  (lastRun'.runs = 1 /\ sessionTraces'[TraceKey(tasks[t].key)] = 0)
            /\ (tasks'[t].pc = "idle" /\ tasks[t].kind = "gateway_start") =>
                  (timers' = {syncIntervalId'} /\ syncIntervalId' \notin timers \cup {0})]_vars

(* every registration request has failed, agentId is still null, and an    *)
(* agent_end run whose two sendEvent calls each met a failed registration  *)
(* has returned and closed its trace                                       *)
C22_Witness ==
    /\ agentId = Null
    /\ regIssued >= 2 /\ FailedAttempts = regIssued
    /\ lastRun.runs = 1 /\ Len(lastRun.calls) = 2
    /\ sessionTraces[TraceKey(lastRun.key)] = 0

(* C23: once register() has run with no key or with a key that does not   *)
(* start with "ad_", no handler is attached, no delayed init is armed, no  *)
(* timer is installed, no request has been issued and no handler runs, and *)
(* the plugin's state is the one of construction.                          *)
C23_BadKeyDisables ==
    (activated /\ (apiKey = <<>> \/ SubSeq(apiKey, 1, 3) # <<"a", "d", "_">>)) =>
        /\ ~attached /\ ~delayedPending
        /\ timers = {} /\ syncIntervalId = 0
        /\ lastPost = NoPost /\ regIssued = 0
        /\ \A t \in Slots : tasks[t].pc = "idle"
        /\ agentId = Null /\ registrationAttempts = 0 /\ gatewayStartTime = Null
        /\ errorCount = 0 /\ recentErrors = <<>>
        /\ \A k \in TraceKeys : sessionTraces[k] = 0

(* register() has run with a key of the wrong prefix                       *)
C23_Witness ==
    activated /\ apiKey # <<>> /\ Head(apiKey) = "s" /\ ~attached

(* a step of the delayed init: the callback fires, or its suspended run    *)
(* is resumed                                                              *)
DelayedStep ==
    \/ DelayedInit
    \/ \E t \in Slots : tasks[t].kind = "delayed" /\ tasks'[t].pc # tasks[t].pc

Dispatched(t) ==
    tasks[t].pc = "idle" /\ tasks'[t].pc # "idle" /\ tasks'[t].kind \in EventKinds

(* C25: the Map holds one id per key; an open id is never replaced, it     *)
(* stays or is closed; an id is generated only in a step that finds the    *)
(* key of its handler without an open id; and every handler dispatched     *)
(* while the key has an open id takes that id, for itself and for the      *)
(* request it posts, and generates none.                                   *)
C25_OneOpenTrace ==
    /\ [][\A k \in TraceKeys :
            sessionTraces[k] # 0 => sessionTraces'[k] \in {sessionTraces[k], 0}]_vars
    /\ [][nextTrace' # nextTrace =>
            /\ nextTrace' = nextTrace + 1
            /\ \E k \in TraceKeys :
                  /\ sessionTraces[k] = 0 /\ sessionTraces'[k] \in {nextTrace, 0}
                  /\ \A o \in TraceKeys \ {k} : sessionTraces'[o] = sessionTraces[o]]_vars
    /\ [][\A t \in Slots :
            Dispatched(t) =>
               LET k == TraceKey(tasks'[t].key) IN
               /\ tasks'[t].traceId = IF sessionTraces[k] # 0 THEN sessionTraces[k] ELSE nextTrace
               /\ sessionTraces[k] # 0 => nextTrace' = nextTrace
               /\ lastPost'.path = "/events" => lastPost'.event.trace_id = tasks'[t].traceId]_vars

(* two handlers of session "s1" are suspended with the open id of "s1",    *)
(* while the session without key has another id open                       *)
C25_Witness ==
    /\ sessionTraces["s1"] # 0
    /\ sessionTraces["default"] \notin {0, sessionTraces["s1"]}
    /\ \A t \in Slots : /\ tasks[t].pc = "post" /\ tasks[t].key = "s1"
                         /\ tasks[t].traceId = sessionTraces["s1"]
    /\ tasks[1].kind # tasks[2].kind

(* C26: on every Map the plugin reaches and for every session key,        *)
(* clearTraceId changes nothing when the key has no open id, gives the     *)
(* same Map applied twice as applied once, and leaves the entry of every   *)
(* other key as it is; and the step in which an agent_end returns leaves   *)
(* its own key without an open id and every other key as it was.           *)
C26_CloseIdempotentLocal ==
    /\ [](\A sk \in SessionKeys :
            LET once == ClearTraceId(sk, sessionTraces) IN
            /\ sessionTraces[TraceKey(sk)] = 0 => once = sessionTraces
            /\ ClearTraceId(sk, once) = once
            /\ once[TraceKey(sk)] = 0
            /\ \A o \in TraceKeys \ {TraceKey(sk)} : once[o] = sessionTraces[o])
    /\ [][lastRun'.runs = 1 =>
            /\ sessionTraces'[TraceKey(lastRun'.key)] = 0
            /\ \A o \in TraceKeys \ {TraceKey(lastRun'.key)} :
                  sessionTraces'[o] = sessionTraces[o]]_vars

(* an agent_end of session "s1" has returned and closed its trace while    *)
(* the session without key keeps its open id                               *)
C26_Witness ==
    /\ lastRun.runs = 1 /\ lastRun.key = "s1"
    /\ sessionTraces["s1"] = 0 /\ sessionTraces["default"] # 0

C28_NoMessageContent ==
    (lastPost.path = "/events" /\ lastPost.event.type = "message") =>
        lastPost.event.content = EmptyStr

(* the configuration with every token and secret blanked                  *)
Redacted(c) ==
    [channels |-> [c.channels EXCEPT !.of = [n \in DOMAIN @ |-> [@[n] EXCEPT !.token = "t1"]]],
     plugins |-> [c.plugins EXCEPT !.of = [n \in DOMAIN @ |-> [@[n] EXCEPT !.secret = "k1"]]]]

(* C29: the body of a config POST holds, per channel that has a config,    *)
(* the fields enabled, dmPolicy, groupPolicy and streamMode and no other,  *)
(* with the values of the configuration (enabled defaulting to true), and  *)
(* for plugins the names of the entries not disabled; and every            *)
(* configuration that differs from the host's in tokens and secrets only   *)
(* gives the same body.                                                    *)
C29_SecretFreePayload ==
    lastPost.path = "/agents/{agentId}/config" =>
        /\ \A n \in DOMAIN lastPost.payload.channels :
              /\ DOMAIN lastPost.payload.channels[n] =
                    {"enabled", "dmPolicy", "groupPolicy", "streamMode"}
              /\ config.channels.of[n].state = "object"
              /\ lastPost.payload.channels[n].enabled \in {"true", "false"}
              /\ config.channels.of[n].enabled # "undefined" =>
                    lastPost.payload.channels[n].enabled = config.channels.of[n].enabled
              /\ lastPost.payload.channels[n].dmPolicy = config.channels.of[n].dmPolicy
        /\ \A i \in 1..Len(lastPost.payload.plugins) :
              LET e == config.plugins.of[lastPost.payload.plugins[i]] IN
              config.plugins.entries /\ e.state # "missing"
              /\ ~(e.state = "object" /\ e.enabled = "false")
        /\ \A c \in Configs :
              Redacted(c) = Redacted(config) => ConfigPayload(c) = lastPost.payload

(* a config POST for a configuration whose channel holds the token "t2"    *)
(* and whose memory plugin holds the secret "k2" and is not disabled       *)
C29_Witness ==
    /\ lastPost.path = "/agents/{agentId}/config"
    /\ config.channels.defined /\ config.channels.of["telegram"].token = "t2"
    /\ config.plugins.entries /\ config.plugins.of["memory"].secret = "k2"
    /\ config.plugins.of["agentdog"].enabled = "false"
    /\ lastPost.payload.plugins = <<"memory">>
    /\ "telegram" \in DOMAIN lastPost.payload.channels

TypeRank(type) == CASE type = "tool_call" -> 0 [] type = "message" -> 1 [] OTHER -> 2

(* C30: the sendEvent calls of an agent_end run are its tool_call events   *)
(* in history order, then at most one message event, then at most one      *)
(* usage event, all with the trace id the handler read when it was         *)
(* dispatched; a run issues a request only when it is dispatched or when   *)
(* the request it was awaiting has returned, and that request is for the   *)
(* next event of its queue (after a failed registration, the next one that *)
(* sendEvent does not drop); it returns only when a request has returned   *)
(* and its queue is empty (or at once, with nothing to send); and a trace  *)
(* is closed only in the step in which an agent_end run of its key         *)
(* returns.                                                                *)
C30_AgentEndSequenced ==
    /\ [](lastRun.runs = 1 =>
            LET calls == lastRun.calls
                toolCalls == CallsOfType(calls, "tool_call")
            IN  /\ \A n \in 1..(Len(calls) - 1) :
                      TypeRank(calls[n].type) <= TypeRank(calls[n + 1].type)
                /\ Len(CallsOfType(calls, "message")) <= 1
                /\ Len(CallsOfType(calls, "usage")) <= 1
                /\ \A n \in 1..(Len(toolCalls) - 1) :
                      Before(toolCalls[n].at, toolCalls[n + 1].at)
                /\ \A n \in DOMAIN calls : calls[n].trace_id = lastRun.traceId)
    /\ [][\A t \in Slots :
            (Dispatched(t) /\ tasks'[t].kind = "agent_end") =>
               LET k == TraceKey(tasks'[t].key) IN
               /\ tasks'[t].traceId = IF sessionTraces[k] # 0 THEN sessionTraces[k] ELSE nextTrace
               /\ lastPost'.path = "/events" =>
                     /\ lastPost'.event.trace_id = tasks'[t].traceId
                     /\ tasks'[t].calls = <<lastPost'.event>>]_vars
    /\ [][\A t \in Slots :
            (tasks[t].kind = "agent_end" /\ tasks'[t].pc # tasks[t].pc) =>
               /\ tasks[t].pc \in {"post", "gate"}
               /\ lastPost'.path = "/events" =>
                     /\ lastPost'.by = "agent_end"
                     /\ \E n \in DOMAIN tasks[t].queue :
                           /\ lastPost'.event = tasks[t].queue[n]
                           /\ tasks'[t].queue = SubSeq(tasks[t].queue, n + 1, Len(tasks[t].queue))
                           /\ tasks[t].pc = "post" => n = 1
                     /\ lastPost'.event.trace_id = tasks[t].traceId
                     /\ tasks'[t].pc = "post"
               /\ tasks'[t].pc = "idle" =>
                     /\ lastPost' = NoPost
                     /\ tasks[t].pc = "post" => tasks[t].queue = <<>>
                     /\ lastRun'.runs = 1 /\ lastRun'.traceId = tasks[t].traceId
                     /\ sessionTraces'[TraceKey(tasks[t].key)] = 0
               /\ tasks'[t].pc # "idle" =>
                     sessionTraces'[TraceKey(tasks[t].key)] = sessionTraces[TraceKey(tasks[t].key)]]_vars
    /\ [][\A k \in TraceKeys :
            (sessionTraces[k] # 0 /\ sessionTraces'[k] = 0) =>
               (lastRun'.runs = 1 /\ TraceKey(lastRun'.key) = k)]_vars

(* a run that sent two tool_call events, the message event and the usage   *)
(* event has returned and closed its trace                                 *)
C30_Witness ==
    /\ lastRun.runs = 1
    /\ Len(lastRun.calls) = 4
    /\ [n \in 1..4 |-> lastRun.calls[n].type] = <<"tool_call", "tool_call", "message", "usage">>
    /\ sessionTraces[TraceKey(lastRun.key)] = 0
    /\ lastPost = NoPost

(* C31: while gateway_stop has been handled and no gateway_start has been  *)
(* signalled since, no periodic sync timer is live.                        *)
C31_NoTimerAfterStop ==
    stopped => timers = {}

C33_OneEventPerInvocation ==
    \A t, u \in Slots :
        (/\ tasks[t].kind = "after_tool_call" /\ tasks[t].pc = "post"
         /\ tasks[u].kind = "agent_end" /\ tasks[u].pc = "post"
         /\ tasks[u].key = tasks[t].key /\ tasks[u].turn = tasks[t].turn
         /\ tasks[u].event.hasMessages
         /\ Cardinality(PlacesOf(tasks[u].event.messages,
                                 LastRealUser(tasks[u].event.messages), "toolCall")) = 1
         /\ lastPost.path = "/events" /\ lastPost.by = "agent_end"
         /\ lastPost.key = tasks[u].key /\ lastPost.turn = tasks[u].turn)
        => ~(/\ lastPost.event.type = "tool_call"
             /\ lastPost.event.name = tasks[t].calls[1].name
             /\ lastPost.event.trace_id = tasks[t].calls[1].trace_id)

(* the history with every assistant message of string content emptied     *)
WithoutStrings(event) ==
    [event EXCEPT !.messages =
        [i \in DOMAIN @ |->
            IF @[i].role = "assistant" /\ @[i].kind = "str"
            THEN Msg("assistant", "none", <<>>) ELSE @[i]]]

(* the assistant messages after the turn start                             *)
RunAssistantMessages ==
    {i \in (lastRun.turnStartIdx + 1)..(Len(lastRun.event.messages) - 1) :
        lastRun.event.messages[i + 1].role = "assistant"}

(* C34: the sendEvent calls of an agent_end run are those of the run on    *)
(* the same history with the assistant messages of string content emptied; *)
(* no message event carries the text of such a message unless a text block *)
(* holds it; and a run whose assistant messages after the turn start all   *)
(* have string content sends no tool_call event and no message event.      *)
C34_StringContentIgnored ==
    (lastRun.runs = 1 /\ lastRun.event.hasMessages) =>
       LET msgs == lastRun.event.messages IN
       /\ lastRun.calls = AgentEndEvents(WithoutStrings(lastRun.event), lastRun.traceId)
       /\ \A n \in DOMAIN lastRun.calls :
             lastRun.calls[n].type = "message" =>
                /\ RunTextPlaces # {}
                /\ \A i \in RunAssistantMessages :
                      (msgs[i + 1].kind = "str" /\ msgs[i + 1].blocks # <<>>) =>
                         lastRun.calls[n].content # msgs[i + 1].blocks[1].val
       /\ (\A i \in RunAssistantMessages : msgs[i + 1].kind = "str") =>
             /\ CallsOfType(lastRun.calls, "tool_call") = <<>>
             /\ CallsOfType(lastRun.calls, "message") = <<>>

(* the only reply of the turn is the string "s": the run sends its usage   *)
(* event and nothing else                                                  *)
C34_Witness ==
    /\ lastRun.runs = 1
    /\ lastRun.event.messages =
          <<Msg("user", "str", <<>>), Msg("assistant", "str", <<Block("text", <<"s">>)>>)>>
    /\ lastRun.turnStartIdx = 0
    /\ Len(lastRun.calls) = 1 /\ lastRun.calls[1].type = "usage"

====
